---- MODULE Spec2Model ----
(***************************************************************************)
(* Entity aggregation of the Panama field reports dashboard                *)
(* (streamlit_app.py): extract_entities_from_sentiment_data builds a       *)
(* roster of entity records from the per-document entity mentions of the   *)
(* sentiment results, and create_entity_dataframe sorts it for display.    *)
(*                                                                         *)
(* Python values are encoded as follows.  A dict is a function whose       *)
(* DOMAIN is the set of its keys; a list is a sequence; the mention dict   *)
(* doc['entities'] is the sequence of its values in iteration (insertion)  *)
(* order, the keys being unused by the code.                               *)
(***************************************************************************)
EXTENDS Integers, Sequences, FiniteSets, TLC

VARIABLES pc, data, passed, doc_index, mention_index, entities, result, df,
          files, load_pc, path_index, opened, reports, loaded

\* the state of load_sentiment_data and of the files it reads
loader == <<files, load_pc, path_index, opened, reports, loaded>>

vars == <<pc, data, passed, doc_index, mention_index, entities, result, df,
          loader>>

(***************************************************************************)
(* Bounds of the model.                                                    *)
(***************************************************************************)
MaxDocs == 2
MaxMentions == 3
MaxConcDocs == 1
MaxConcMentions == 2

(***************************************************************************)
(* Python helpers.                                                         *)
(***************************************************************************)
None == [py_none |-> TRUE]

EmptyDict == [k \in {} |-> ""]

\* dict.get(k, default)
Get(d, k, default) == IF k \in DOMAIN d THEN d[k] ELSE default

\* the truthiness test is dropped
TruthyAlways(d) == TRUE

\* truthiness of the argument: None and the empty dict are falsy
Truthy(d) == d # None /\ DOMAIN d # {}

(***************************************************************************)
(* The role table.                                                         *)
(***************************************************************************)
entity_roles ==
    [n \in {"José Raúl Mulino", "Ana Rojas", "Carlos Méndez", "Marta Linares"} |->
        CASE n = "José Raúl Mulino" -> "President of Panama"
          [] n = "Ana Rojas" -> "Defense Chief"
          [] n = "Carlos Méndez" -> "Minister of the Interior"
          [] n = "Marta Linares" -> "Vice President"]

\* the lookup falls back to the name itself
GovernmentRoleEcho(entity_name) == Get(entity_roles, entity_name, entity_name)

\* entity_roles.get(entity_name, "Unknown Role")
GovernmentRole(entity_name) == Get(entity_roles, entity_name, "Unknown Role")

(***************************************************************************)
(* One iteration of the inner loop of                                      *)
(* extract_entities_from_sentiment_data.                                   *)
(***************************************************************************)
\* only the record appended last is compared
FindExistingLastOnly(ents, entity_name) ==
    IF ents # <<>> /\ ents[Len(ents)].name = entity_name THEN Len(ents) ELSE 0

\* the scan never finds a record
FindExistingNone(ents, entity_name) == 0

\* next((e for e in entities if e['name'] == entity_name), None):
\* index of the first record with that name, 0 for None
FindExisting(ents, entity_name) ==
    IF \E k \in 1..Len(ents) : ents[k].name = entity_name
    THEN CHOOSE k \in 1..Len(ents) :
            /\ ents[k].name = entity_name
            /\ \A j \in 1..(k - 1) : ents[j].name # entity_name
    ELSE 0

\* a mixed record takes the sentiment of the next mention
MergeSentimentRevert(current, sentiment) ==
    IF current = "mixed" THEN sentiment
    ELSE IF sentiment # current THEN "mixed" ELSE current

\* the last mention wins
MergeSentimentLast(current, sentiment) == sentiment

\* if sentiment != existing_entity['sentiment']: ... = 'mixed'
MergeSentiment(current, sentiment) ==
    IF sentiment # current THEN "mixed" ELSE current

\* the count is not incremented
UpdateExistingNoCount(e, sentiment) ==
    [e EXCEPT !.sentiment = MergeSentiment(e.sentiment, sentiment)]

\* the branch taken when the record exists
UpdateExisting(e, sentiment) ==
    [e EXCEPT !.mention_count = @ + 1,
              !.sentiment = MergeSentiment(e.sentiment, sentiment)]

\* the record appended when the name is new
NewEntity(entity_name, entity_type, sentiment, government_role) ==
    [name |-> entity_name,
     type |-> entity_type,
     sentiment |-> sentiment,
     mention_count |-> 1,
     government_role |-> government_role]

\* entity_data.get('entity_name', 'Unknown')
EntityName(entity_data) == Get(entity_data, "entity_name", "Unknown")

\* the default of the sentiment is that of the type
EntitySentimentUnknown(entity_data) == Get(entity_data, "sentiment", "Unknown")

\* entity_data.get('sentiment', 'neutral')
EntitySentiment(entity_data) == Get(entity_data, "sentiment", "neutral")

\* entity_data.get('entity_type', 'Unknown')
EntityType(entity_data) == Get(entity_data, "entity_type", "Unknown")

\* the type of an existing record follows the latest mention
ProcessEntityRetype(ents, entity_data) ==
    LET entity_name == EntityName(entity_data)
        sentiment == EntitySentiment(entity_data)
        entity_type == EntityType(entity_data)
        government_role == GovernmentRole(entity_name)
        existing_entity == FindExisting(ents, entity_name)
    IN  IF existing_entity # 0
        THEN [ents EXCEPT ![existing_entity] =
                 [UpdateExisting(@, sentiment) EXCEPT !.type = entity_type]]
        ELSE Append(ents, NewEntity(entity_name, entity_type, sentiment,
                                    government_role))

\* the body of the inner loop for one mention
ProcessEntity(ents, entity_data) ==
    LET entity_name == EntityName(entity_data)
        sentiment == EntitySentiment(entity_data)
        entity_type == EntityType(entity_data)
        government_role == GovernmentRole(entity_name)
        existing_entity == FindExisting(ents, entity_name)
    IN  IF existing_entity # 0
        THEN [ents EXCEPT ![existing_entity] = UpdateExisting(@, sentiment)]
        ELSE Append(ents, NewEntity(entity_name, entity_type, sentiment,
                                    government_role))

(***************************************************************************)
(* The whole function, run alone, as a fold over documents and mentions.   *)
(***************************************************************************)
RECURSIVE ProcessMentions(_, _)
ProcessMentions(ents, doc_entities) ==
    IF doc_entities = <<>> THEN ents
    ELSE ProcessMentions(ProcessEntity(ents, Head(doc_entities)),
                         Tail(doc_entities))

RECURSIVE ProcessDocuments(_, _)
ProcessDocuments(ents, documents) ==
    IF documents = <<>> THEN ents
    ELSE ProcessDocuments(
             ProcessMentions(ents, Get(Head(documents), "entities", <<>>)),
             Tail(documents))

extract_entities_from_sentiment_data(d) ==
    IF ~Truthy(d) THEN <<>>
    ELSE ProcessDocuments(<<>>, Get(d, "documents", <<>>))

(***************************************************************************)
(* The variant of the design notes: the existing record is found through   *)
(* an index from entity_name to the position of its record instead of the  *)
(* scan of the roster.                                                     *)
(***************************************************************************)
ProcessEntityIndexed(st, entity_data) ==
    LET entity_name == EntityName(entity_data)
        sentiment == EntitySentiment(entity_data)
        entity_type == EntityType(entity_data)
        government_role == GovernmentRole(entity_name)
    IN  IF entity_name \in DOMAIN st.index
        THEN [st EXCEPT !.ents[st.index[entity_name]] =
                            UpdateExisting(@, sentiment)]
        ELSE [ents |-> Append(st.ents,
                              NewEntity(entity_name, entity_type, sentiment,
                                        government_role)),
              index |-> [n \in DOMAIN st.index \cup {entity_name} |->
                            IF n = entity_name THEN Len(st.ents) + 1
                            ELSE st.index[n]]]

RECURSIVE ProcessMentionsIndexed(_, _)
ProcessMentionsIndexed(st, doc_entities) ==
    IF doc_entities = <<>> THEN st
    ELSE ProcessMentionsIndexed(ProcessEntityIndexed(st, Head(doc_entities)),
                                Tail(doc_entities))

RECURSIVE ProcessDocumentsIndexed(_, _)
ProcessDocumentsIndexed(st, documents) ==
    IF documents = <<>> THEN st
    ELSE ProcessDocumentsIndexed(
             ProcessMentionsIndexed(st, Get(Head(documents), "entities", <<>>)),
             Tail(documents))

ExtractIndexed(d) ==
    IF ~Truthy(d) THEN <<>>
    ELSE ProcessDocumentsIndexed([ents |-> <<>>, index |-> EmptyDict],
                                 Get(d, "documents", <<>>)).ents

(***************************************************************************)
(* create_entity_dataframe: pandas sort_values('mention_count',            *)
(* ascending=False) with the default sort kind, which is not stable: any   *)
(* arrangement of the rows that is non-increasing in mention_count.        *)
(***************************************************************************)
Rearrangements(s) ==
    {[k \in 1..Len(s) |-> s[p[k]]] :
        p \in {q \in [1..Len(s) -> 1..Len(s)] :
                 \A a, b \in 1..Len(s) : a # b => q[a] # q[b]}}

\* the rows are sorted in ascending order
create_entity_dataframe_ascending(ents) ==
    {s \in Rearrangements(ents) :
        \A a, b \in 1..Len(s) :
            a < b => s[a].mention_count <= s[b].mention_count}

create_entity_dataframe(ents) ==
    {s \in Rearrangements(ents) :
        \A a, b \in 1..Len(s) :
            a < b => s[a].mention_count >= s[b].mention_count}

(***************************************************************************)
(* Input document sets.                                                    *)
(***************************************************************************)
\* mentions of two officials and of a nameless entity
EntityMentions ==
    {[entity_name |-> "Ana Rojas", entity_type |-> "PERSON",
      sentiment |-> "positive"],
     [entity_name |-> "Ana Rojas", entity_type |-> "PERSON",
      sentiment |-> "negative"],
     [entity_name |-> "Ana Rojas", entity_type |-> "ORG",
      sentiment |-> "neutral"],
     [entity_name |-> "Luis Vega", entity_type |-> "PERSON",
      sentiment |-> "neutral"],
     [entity_name |-> "Luis Vega", entity_type |-> "ORG",
      sentiment |-> "negative"],
     [entity_name |-> "Unknown", entity_type |-> "PERSON",
      sentiment |-> "neutral"],
     EmptyDict}

\* mentions lacking each subset of the three fields
PartialMentions ==
    {[entity_name |-> "Unknown", entity_type |-> "PERSON",
      sentiment |-> "neutral"],
     [entity_name |-> "Ana Rojas", entity_type |-> "ORG"],
     [entity_name |-> "Luis Vega", sentiment |-> "negative"],
     [entity_type |-> "ORG", sentiment |-> "negative"],
     [entity_name |-> "Unknown"],
     [entity_type |-> "ORG"],
     [sentiment |-> "positive"],
     EmptyDict}

ConcMentions ==
    {[entity_name |-> "Ana Rojas", entity_type |-> "PERSON",
      sentiment |-> "negative"],
     [entity_name |-> "Luis Vega", entity_type |-> "ORG"]}

ReorderMentions ==
    {[entity_name |-> "Ana Rojas", entity_type |-> "PERSON",
      sentiment |-> "positive"],
     [entity_name |-> "Ana Rojas", entity_type |-> "ORG",
      sentiment |-> "negative"],
     [entity_name |-> "Luis Vega", entity_type |-> "PERSON",
      sentiment |-> "neutral"]}

\* the shape of a list of documents: per document the number of its
\* mentions, or -1 for a document without an 'entities' key
RECURSIVE Total(_)
Total(shape) ==
    IF shape = <<>> THEN 0
    ELSE (IF Head(shape) < 0 THEN 0 ELSE Head(shape)) + Total(Tail(shape))

DocShapes(nd, nm) ==
    {shape \in UNION {[1..k -> -1..nm] : k \in 0..nd} : Total(shape) <= nm}

\* the documents of that shape holding the mentions ms, in order
RECURSIVE BuildDocuments(_, _)
BuildDocuments(shape, ms) ==
    IF shape = <<>> THEN <<>>
    ELSE IF Head(shape) < 0
         THEN <<[document_id |-> "doc"]>> \o BuildDocuments(Tail(shape), ms)
         ELSE <<[entities |-> SubSeq(ms, 1, Head(shape))]>>
                  \o BuildDocuments(Tail(shape),
                                    SubSeq(ms, Head(shape) + 1, Len(ms)))

\* the values load_sentiment_data can hand over besides a dict with a
\* list of documents: None, an empty dict, a dict without 'documents'
NoDocuments == {None, EmptyDict, [document_set_id |-> "ds"]}

\* lists of at most nd documents holding at most nm mentions in all
DocSeqs(A, nd, nm) ==
    UNION {{BuildDocuments(shape, ms) : ms \in [1..Total(shape) -> A]} :
              shape \in DocShapes(nd, nm)}

ConcDocumentSets ==
    NoDocuments \cup
        {[documents |-> ds] :
            ds \in DocSeqs(ConcMentions, MaxConcDocs, MaxConcMentions)}

\* the document sets that hold the documents of d in any order, each with
\* its mentions in any order
MentionOrders(doc) ==
    IF "entities" \in DOMAIN doc
    THEN {[entities |-> e] : e \in Rearrangements(doc.entities)}
    ELSE {doc}

RECURSIVE InnerOrders(_)
InnerOrders(docs) ==
    IF docs = <<>> THEN {<<>>}
    ELSE {<<h>> \o t : h \in MentionOrders(Head(docs)),
                       t \in InnerOrders(Tail(docs))}

Reorderings(d) ==
    {[documents |-> ds] :
        ds \in UNION {InnerOrders(p) : p \in Rearrangements(d.documents)}}

(***************************************************************************)
(* load_sentiment_data.  The candidate paths are tried in the order of     *)
(* possible_paths; the first two name the same file of the working         *)
(* directory.  A file is missing, or holds text that json.load rejects     *)
(* (JSONDecodeError), or holds a JSON value.                               *)
(*   files      the file at each location                                  *)
(*   load_pc    position of the call                                       *)
(*   path_index position of the loop over possible_paths                   *)
(*   opened     the paths open() was called on, in order                   *)
(*   reports    the messages shown (st.success, st.error), in order        *)
(*   loaded     the value returned                                         *)
(***************************************************************************)
possible_paths ==
    <<"panama_sentiment_results.json",
      "./panama_sentiment_results.json",
      "data/panama_sentiment_results.json">>

\* the file a path names
Location(file_path) ==
    IF file_path = "data/panama_sentiment_results.json" THEN "data"
    ELSE "cwd"

Locations == {Location(possible_paths[k]) : k \in 1..Len(possible_paths)}

Missing == [exists |-> FALSE]

Malformed == [exists |-> TRUE, parses |-> FALSE]

Json(v) == [exists |-> TRUE, parses |-> TRUE, value |-> v]

\* the JSON values a results file may hold: null, {}, document sets
JsonValues ==
    {None, EmptyDict, [documents |-> <<>>],
     [documents |-> <<[entities |->
          <<[entity_name |-> "Ana Rojas", entity_type |-> "PERSON",
             sentiment |-> "negative"]>>]>>]}

FileStates == {Missing, Malformed} \cup {Json(v) : v \in JsonValues}

LoaderIdle ==
    /\ files = [l \in Locations |-> Missing]
    /\ load_pc = "idle"
    /\ path_index = 1
    /\ opened = <<>>
    /\ reports = <<>>
    /\ loaded = None

(***************************************************************************)
(* State: one slot per invocation of                                       *)
(* extract_entities_from_sentiment_data.                                   *)
(*   pc            position of the invocation                              *)
(*   data          the caller's document set, the argument                 *)
(*   passed        the value of the argument when the call was made        *)
(*   doc_index     position of the outer loop (0 before the first doc)     *)
(*   mention_index position of the inner loop in the current document      *)
(*   entities      the local roster                                        *)
(*   result        the returned roster                                     *)
(*   df            the rows of the frame built from the roster             *)
(***************************************************************************)
Invocations == DOMAIN pc

Documents(i) == Get(data[i], "documents", <<>>)

DocEntities(i) ==
    IF doc_index[i] = 0 THEN <<>>
    ELSE Get(Documents(i)[doc_index[i]], "entities", <<>>)

Fresh(I, p, d) ==
    /\ pc = [i \in I |-> p]
    /\ data = d
    /\ passed = d
    /\ doc_index = [i \in I |-> 0]
    /\ mention_index = [i \in I |-> 1]
    /\ entities = [i \in I |-> <<>>]
    /\ result = [i \in I |-> <<>>]
    /\ df = [i \in I |-> <<>>]
    /\ LoaderIdle

\* one invocation, called on a document set with mentions among A
Called(A) ==
    \/ \E d \in NoDocuments : Fresh({1}, "start", [i \in {1} |-> d])
    \/ \E shape \in DocShapes(MaxDocs, MaxMentions) :
           \E ms \in [1..Total(shape) -> A] :
               Fresh({1}, "start",
                     [i \in {1} |-> [documents |-> BuildDocuments(shape, ms)]])

Init == Called(EntityMentions)

InitPartial == Called(PartialMentions)

\* two invocations, not yet called
InitConc == Fresh({1, 2}, "idle", [i \in {1, 2} |-> None])

\* the first invocation is called on a document set, the second not yet
InitReorder ==
    \E shape \in DocShapes(MaxDocs, MaxMentions) :
        \E ms \in [1..Total(shape) -> ReorderMentions] :
            /\ pc = [i \in {1, 2} |-> IF i = 1 THEN "start" ELSE "idle"]
            /\ data = [i \in {1, 2} |->
                          IF i = 1
                          THEN [documents |-> BuildDocuments(shape, ms)]
                          ELSE None]
            /\ passed = data
            /\ doc_index = [i \in {1, 2} |-> 0]
            /\ mention_index = [i \in {1, 2} |-> 1]
            /\ entities = [i \in {1, 2} |-> <<>>]
            /\ result = [i \in {1, 2} |-> <<>>]
            /\ df = [i \in {1, 2} |-> <<>>]
            /\ LoaderIdle

\* a caller invokes the function on d (again, after an earlier return)
Call(i, d) ==
    /\ pc[i] \in {"idle", "done"}
    /\ pc' = [pc EXCEPT ![i] = "start"]
    /\ data' = [data EXCEPT ![i] = d]
    /\ passed' = [passed EXCEPT ![i] = d]
    /\ result' = [result EXCEPT ![i] = <<>>]
    /\ UNCHANGED <<doc_index, mention_index, entities, df>>
    /\ UNCHANGED loader

\* 'if not data: return []'; otherwise entities = [] and the loops start
\* (None.get would raise AttributeError)
Enter(i) ==
    /\ pc[i] = "start"
    /\ IF ~Truthy(data[i])
       THEN /\ pc' = [pc EXCEPT ![i] = "done"]
            /\ result' = [result EXCEPT ![i] = <<>>]
            /\ UNCHANGED <<doc_index, mention_index, entities>>
       ELSE /\ pc' = [pc EXCEPT ![i] = IF data[i] = None THEN "raised"
                                       ELSE "loop"]
            /\ entities' = [entities EXCEPT ![i] = <<>>]
            /\ doc_index' = [doc_index EXCEPT ![i] = 0]
            /\ mention_index' = [mention_index EXCEPT ![i] = 1]
            /\ UNCHANGED result
    /\ UNCHANGED <<data, passed, df>>
    /\ UNCHANGED loader

\* the outer loop moves to the next document
NextDoc(i) ==
    /\ pc[i] = "loop"
    /\ mention_index[i] > Len(DocEntities(i))
    /\ doc_index[i] < Len(Documents(i))
    /\ doc_index' = [doc_index EXCEPT ![i] = @ + 1]
    /\ mention_index' = [mention_index EXCEPT ![i] = 1]
    /\ UNCHANGED <<pc, data, passed, entities, result, df>>
    /\ UNCHANGED loader

\* the roster is one list shared by all invocations
ProcessMentionShared(i) ==
    /\ pc[i] = "loop"
    /\ mention_index[i] <= Len(DocEntities(i))
    /\ entities' = [j \in Invocations |->
                       IF pc[j] = "loop"
                       THEN ProcessEntity(entities[j],
                                          DocEntities(i)[mention_index[i]])
                       ELSE entities[j]]
    /\ mention_index' = [mention_index EXCEPT ![i] = @ + 1]
    /\ UNCHANGED <<pc, data, passed, doc_index, result, df>>
    /\ UNCHANGED loader

\* the inner loop processes the next mention of the current document
ProcessMention(i) ==
    /\ pc[i] = "loop"
    /\ mention_index[i] <= Len(DocEntities(i))
    /\ entities' = [entities EXCEPT ![i] =
                       ProcessEntity(@, DocEntities(i)[mention_index[i]])]
    /\ mention_index' = [mention_index EXCEPT ![i] = @ + 1]
    /\ UNCHANGED <<pc, data, passed, doc_index, result, df>>
    /\ UNCHANGED loader

\* return entities: the caller gets the roster, the locals are gone
Return(i) ==
    /\ pc[i] = "loop"
    /\ mention_index[i] > Len(DocEntities(i))
    /\ doc_index[i] = Len(Documents(i))
    /\ pc' = [pc EXCEPT ![i] = "done"]
    /\ result' = [result EXCEPT ![i] = entities[i]]
    /\ entities' = [entities EXCEPT ![i] = <<>>]
    /\ doc_index' = [doc_index EXCEPT ![i] = 0]
    /\ mention_index' = [mention_index EXCEPT ![i] = 1]
    /\ UNCHANGED <<data, passed, df>>
    /\ UNCHANGED loader

\* display_entities_page: a non-empty roster is turned into the frame
CreateDataFrame(i) ==
    /\ pc[i] = "done"
    /\ result[i] # <<>>
    /\ df' \in {[df EXCEPT ![i] = rows] :
                   rows \in create_entity_dataframe(result[i])}
    /\ pc' = [pc EXCEPT ![i] = "framed"]
    /\ UNCHANGED <<data, passed, doc_index, mention_index, entities, result>>
    /\ UNCHANGED loader

Next ==
    \/ \E i \in Invocations : Enter(i)
    \/ \E i \in Invocations : NextDoc(i)
    \/ \E i \in Invocations : ProcessMention(i)
    \/ \E i \in Invocations : Return(i)
    \/ \E i \in Invocations : CreateDataFrame(i)

Spec == Init /\ [][Next]_vars

SpecPartial == InitPartial /\ [][Next]_vars

NextConc ==
    \/ \E i \in Invocations : \E d \in ConcDocumentSets : Call(i, d)
    \/ \E i \in Invocations : Enter(i)
    \/ \E i \in Invocations : NextDoc(i)
    \/ \E i \in Invocations : ProcessMention(i)
    \/ \E i \in Invocations : Return(i)

SpecConc == InitConc /\ [][NextConc]_vars

\* the second page calls the function once the first call has returned,
\* on the same documents and mentions in another order
CallReordered ==
    /\ pc[1] = "done"
    /\ pc[2] = "idle"
    /\ \E d \in Reorderings(passed[1]) : Call(2, d)

NextReorder ==
    \/ CallReordered
    \/ \E i \in Invocations : Enter(i)
    \/ \E i \in Invocations : NextDoc(i)
    \/ \E i \in Invocations : ProcessMention(i)
    \/ \E i \in Invocations : Return(i)

SpecReorder == InitReorder /\ [][NextReorder]_vars

\* a page calls load_sentiment_data, with the files in any state
InitLoad ==
    /\ pc = [i \in {1} |-> "idle"]
    /\ data = [i \in {1} |-> None]
    /\ passed = data
    /\ doc_index = [i \in {1} |-> 0]
    /\ mention_index = [i \in {1} |-> 1]
    /\ entities = [i \in {1} |-> <<>>]
    /\ result = [i \in {1} |-> <<>>]
    /\ df = [i \in {1} |-> <<>>]
    /\ files \in [Locations -> FileStates]
    /\ load_pc = "open"
    /\ path_index = 1
    /\ opened = <<>>
    /\ reports = <<>>
    /\ loaded = None

aggregator == <<pc, data, passed, doc_index, mention_index, entities, result, df>>

\* the first missing file ends the search
OpenPathStopOnMissing ==
    /\ load_pc = "open"
    /\ path_index <= Len(possible_paths)
    /\ opened' = Append(opened, possible_paths[path_index])
    /\ IF files[Location(possible_paths[path_index])].exists
       THEN /\ load_pc' = "parse"
            /\ UNCHANGED path_index
       ELSE /\ load_pc' = "returned"
            /\ UNCHANGED path_index
    /\ UNCHANGED <<files, reports, loaded, aggregator>>

\* open(file_path, "r"): FileNotFoundError continues with the next path
OpenPath ==
    /\ load_pc = "open"
    /\ path_index <= Len(possible_paths)
    /\ opened' = Append(opened, possible_paths[path_index])
    /\ IF files[Location(possible_paths[path_index])].exists
       THEN /\ load_pc' = "parse"
            /\ UNCHANGED path_index
       ELSE /\ load_pc' = "open"
            /\ path_index' = path_index + 1
    /\ UNCHANGED <<files, reports, loaded, aggregator>>

\* json.load(f): the value is reported and returned; JSONDecodeError is
\* reported and the loop continues with the next path
LoadJson ==
    /\ load_pc = "parse"
    /\ LET file_path == possible_paths[path_index]
           f == files[Location(file_path)]
       IN  IF f.parses
           THEN /\ reports' = Append(reports, [kind |-> "success",
                                               path |-> file_path])
                /\ loaded' = f.value
                /\ load_pc' = "returned"
                /\ UNCHANGED path_index
           ELSE /\ reports' = Append(reports, [kind |-> "parse_error",
                                               path |-> file_path])
                /\ load_pc' = "open"
                /\ path_index' = path_index + 1
                /\ UNCHANGED loaded
    /\ UNCHANGED <<files, opened, aggregator>>

\* after the loop: the 'file not found' report, return None
NotFound ==
    /\ load_pc = "open"
    /\ path_index > Len(possible_paths)
    /\ reports' = Append(reports, [kind |-> "not_found", path |-> ""])
    /\ loaded' = None
    /\ load_pc' = "returned"
    /\ UNCHANGED <<files, path_index, opened, aggregator>>

NextLoad ==
    \/ OpenPath
    \/ LoadJson
    \/ NotFound

SpecLoad == InitLoad /\ [][NextLoad]_vars

(***************************************************************************)
(* Vocabulary of the properties: the mentions of an input in processing    *)
(* order, with the documented defaults of the data model.                  *)
(***************************************************************************)
NameOf(m) == IF "entity_name" \in DOMAIN m THEN m.entity_name ELSE "Unknown"

TypeOf(m) == IF "entity_type" \in DOMAIN m THEN m.entity_type ELSE "Unknown"

SentimentOf(m) == IF "sentiment" \in DOMAIN m THEN m.sentiment ELSE "neutral"

RECURSIVE Flatten(_)
Flatten(docs) ==
    IF docs = <<>> THEN <<>>
    ELSE (IF "entities" \in DOMAIN Head(docs) THEN Head(docs).entities
          ELSE <<>>) \o Flatten(Tail(docs))

AllMentions(d) ==
    IF d # None /\ "documents" \in DOMAIN d THEN Flatten(d.documents)
    ELSE <<>>

\* positions of the mentions of the entity n
MentionsOf(ms, n) == {k \in 1..Len(ms) : NameOf(ms[k]) = n}

FirstMention(ms, n) ==
    CHOOSE k \in MentionsOf(ms, n) : \A j \in MentionsOf(ms, n) : k <= j

RECURSIVE SumCounts(_)
SumCounts(r) ==
    IF r = <<>> THEN 0 ELSE Head(r).mention_count + SumCounts(Tail(r))

Returned(i) == pc[i] \in {"done", "framed"}

Enum == {"positive", "negative", "neutral"}

(***************************************************************************)
(* C1: the returned roster holds exactly one record per distinct           *)
(* entity_name of the input (a mention without a name counting as          *)
(* "Unknown"): no two records share a name, every mentioned name has a     *)
(* record, and there are as many records as distinct names.                *)
(***************************************************************************)
OneRecordPerName ==
    \A i \in Invocations :
        Returned(i) =>
            LET ms == AllMentions(passed[i])
                names == {NameOf(ms[k]) : k \in 1..Len(ms)}
                r == result[i]
            IN  /\ \A a, b \in 1..Len(r) : a # b => r[a].name # r[b].name
                /\ {r[a].name : a \in 1..Len(r)} = names
                /\ Len(r) = Cardinality(names)

\* a roster of two records built from three mentions in two documents,
\* one of them without a name
OneRecordPerNameWitness ==
    /\ pc[1] = "done"
    /\ Len(result[1]) = 2
    /\ Len(AllMentions(passed[1])) = 3
    /\ Len(passed[1].documents) = 2
    /\ \E k \in 1..3 : "entity_name" \notin DOMAIN AllMentions(passed[1])[k]

(***************************************************************************)
(* C2: every record's mention_count is the number of mentions of its name  *)
(* over all documents; so each count is at least 1 and the counts sum to   *)
(* the number of mentions of the input.                                    *)
(***************************************************************************)
MentionCountExact ==
    \A i \in Invocations :
        Returned(i) =>
            LET ms == AllMentions(passed[i])
                r == result[i]
            IN  /\ \A a \in 1..Len(r) :
                       /\ r[a].mention_count
                              = Cardinality(MentionsOf(ms, r[a].name))
                       /\ r[a].mention_count >= 1
                /\ SumCounts(r) = Len(ms)

\* an entity mentioned in two documents next to an entity mentioned once
MentionCountWitness ==
    /\ pc[1] = "done"
    /\ Len(result[1]) = 2
    /\ \E a \in 1..2 : result[1][a].mention_count = 2
    /\ Len(passed[1].documents) = 2
    /\ \A k \in 1..2 : /\ "entities" \in DOMAIN passed[1].documents[k]
                       /\ passed[1].documents[k].entities # <<>>
    /\ NameOf(AllMentions(passed[1])[1]) = NameOf(AllMentions(passed[1])[3])

(***************************************************************************)
(* C3: with mention sentiments among positive, negative and neutral, a     *)
(* record whose mentions all carry one sentiment has that sentiment, and   *)
(* a record with two mentions of different sentiments is "mixed".          *)
(***************************************************************************)
SentimentResolved ==
    \A i \in Invocations :
        Returned(i) =>
            LET ms == AllMentions(passed[i])
                r == result[i]
            IN  (\A k \in 1..Len(ms) : SentimentOf(ms[k]) \in Enum) =>
                \A a \in 1..Len(r) :
                    LET S == {SentimentOf(ms[k]) :
                                 k \in MentionsOf(ms, r[a].name)}
                    IN  /\ Cardinality(S) = 1 => r[a].sentiment \in S
                        /\ Cardinality(S) > 1 => r[a].sentiment = "mixed"

\* mentions negative, positive, negative of one entity
SentimentResolvedWitness ==
    /\ pc[1] = "done"
    /\ Len(result[1]) = 1
    /\ result[1][1].sentiment = "mixed"
    /\ LET ms == AllMentions(passed[1])
       IN  /\ Len(ms) = 3
           /\ SentimentOf(ms[1]) = "negative"
           /\ SentimentOf(ms[2]) = "positive"
           /\ SentimentOf(ms[3]) = "negative"

(***************************************************************************)
(* C4, as stated: the sequence returned by                                 *)
(* extract_entities_from_sentiment_data is sorted by mention_count in      *)
(* non-increasing order, records of equal count in first-encountered       *)
(* order.                                                                  *)
(***************************************************************************)
RosterSortedByCount ==
    \A i \in Invocations :
        Returned(i) =>
            LET ms == AllMentions(passed[i])
                r == result[i]
            IN  \A a, b \in 1..Len(r) :
                    a < b =>
                        \/ r[a].mention_count > r[b].mention_count
                        \/ /\ r[a].mention_count = r[b].mention_count
                           /\ FirstMention(ms, r[a].name)
                                  < FirstMention(ms, r[b].name)

(***************************************************************************)
(* C4, amended: the returned sequence is in first-encountered order of     *)
(* the entities, whatever their counts; the frame that                     *)
(* create_entity_dataframe builds from it holds the same records in        *)
(* non-increasing order of mention_count.                                  *)
(***************************************************************************)
RosterInEncounterOrderFrameSorted ==
    \A i \in Invocations :
        /\ Returned(i) =>
               LET ms == AllMentions(passed[i])
                   r == result[i]
               IN  \A a, b \in 1..Len(r) :
                       a < b => FirstMention(ms, r[a].name)
                                    < FirstMention(ms, r[b].name)
        /\ pc[i] = "framed" =>
               /\ Len(df[i]) = Len(result[i])
               /\ {df[i][k] : k \in 1..Len(df[i])}
                      = {result[i][k] : k \in 1..Len(result[i])}
               /\ \A a, b \in 1..Len(df[i]) :
                      a < b => df[i][a].mention_count >= df[i][b].mention_count

\* a frame whose rows had to be reordered
FrameSortedWitness ==
    /\ pc[1] = "framed"
    /\ Len(result[1]) = 2
    /\ result[1][1].mention_count = 1
    /\ result[1][2].mention_count = 2
    /\ df[1] = <<result[1][2], result[1][1]>>

(***************************************************************************)
(* C5: the role of every record is the role table's entry for its name,    *)
(* or "Unknown Role" when the table has no such entry, whatever the        *)
(* mentions' sentiment, type, count or order.                              *)
(***************************************************************************)
RoleFromTable ==
    \A i \in Invocations :
        Returned(i) =>
            \A a \in 1..Len(result[i]) :
                LET e == result[i][a]
                IN  /\ e.name \in DOMAIN entity_roles =>
                           e.government_role = entity_roles[e.name]
                    /\ e.name \notin DOMAIN entity_roles =>
                           e.government_role = "Unknown Role"

\* a roster with an official of the table and an entity outside it
RoleFromTableWitness ==
    /\ pc[1] = "done"
    /\ \E a, b \in 1..Len(result[1]) :
           /\ result[1][a].name = "Ana Rojas"
           /\ result[1][a].government_role = "Defense Chief"
           /\ result[1][a].mention_count = 2
           /\ result[1][b].name = "Luis Vega"
           /\ result[1][b].government_role = "Unknown Role"

(***************************************************************************)
(* C6: for every input without a mention (None, an empty dict, a dict      *)
(* without documents, an empty list of documents, documents without a      *)
(* mention mapping or with an empty one) the function does not raise and   *)
(* returns the empty sequence.                                             *)
(***************************************************************************)
EmptyInputEmptyRoster ==
    \A i \in Invocations :
        AllMentions(passed[i]) = <<>> =>
            /\ pc[i] # "raised"
            /\ Returned(i) => result[i] = <<>>

\* returned from two documents, one without a mention mapping and one
\* with an empty mapping
EmptyInputWitness ==
    /\ pc[1] = "done"
    /\ passed[1] = [documents |-> <<[document_id |-> "doc"],
                                    [entities |-> <<>>]>>]
    /\ result[1] = <<>>

(***************************************************************************)
(* C7: a mention lacking any of its fields never makes the function raise  *)
(* and is treated as having entity_name "Unknown", entity_type "Unknown"   *)
(* and sentiment "neutral"; all the mentions without a name, together      *)
(* with those literally named "Unknown", form one record "Unknown" whose   *)
(* mention_count is their number.                                          *)
(***************************************************************************)
MissingFieldsDefaulted ==
    \A i \in Invocations :
        /\ pc[i] # "raised"
        /\ Returned(i) =>
               LET ms == AllMentions(passed[i])
                   r == result[i]
                   unknown == {k \in 1..Len(ms) :
                                  \/ "entity_name" \notin DOMAIN ms[k]
                                  \/ ms[k].entity_name = "Unknown"}
                   records == {a \in 1..Len(r) : r[a].name = "Unknown"}
               IN  /\ \A k \in 1..Len(ms) :
                          \E a \in 1..Len(r) :
                              /\ r[a].name = NameOf(ms[k])
                              /\ r[a].type
                                     = TypeOf(ms[FirstMention(ms, r[a].name)])
                              /\ r[a].sentiment
                                     \in {SentimentOf(ms[k]), "mixed"}
                   /\ unknown = {} => records = {}
                   /\ unknown # {} =>
                          /\ Cardinality(records) = 1
                          /\ \A a \in records :
                                 r[a].mention_count = Cardinality(unknown)

\* three mentions in two documents, one lacking every field, one lacking
\* name and sentiment, one literally named "Unknown", in one record
MissingFieldsWitness ==
    /\ pc[1] = "done"
    /\ Len(result[1]) = 1
    /\ result[1][1] = [name |-> "Unknown", type |-> "Unknown",
                       sentiment |-> "neutral", mention_count |-> 3,
                       government_role |-> "Unknown Role"]
    /\ Len(passed[1].documents) = 2
    /\ LET ms == AllMentions(passed[1])
       IN  /\ ms[1] = EmptyDict
           /\ ms[2] = [entity_type |-> "ORG"]
           /\ ms[3] = [entity_name |-> "Unknown"]

(***************************************************************************)
(* C8: invocations are independent.  With the steps of two invocations     *)
(* interleaved in any order, and with later invocations following          *)
(* earlier ones, each invocation returns the roster it returns when run    *)
(* alone on its argument, and no invocation modifies an argument.          *)
(***************************************************************************)
InvocationsIndependent ==
    \A i \in Invocations :
        /\ data[i] = passed[i]
        /\ pc[i] # "raised"
        /\ pc[i] = "done" =>
               result[i] = extract_entities_from_sentiment_data(passed[i])

\* both invocations are inside their loops, on different document sets,
\* each with a mention processed and a mention still to process
InvocationsInterleavedWitness ==
    /\ pc[1] = "loop" /\ pc[2] = "loop"
    /\ passed[1] # passed[2]
    /\ \A i \in {1, 2} :
           /\ Len(entities[i]) = 1
           /\ doc_index[i] = 1
           /\ mention_index[i] = 2
           /\ Len(DocEntities(i)) = 2

(***************************************************************************)
(* C9: once the sentiment of a record is "mixed" it is "mixed" after       *)
(* every later mention processed in the pass, and in the returned roster.  *)
(***************************************************************************)
MixedStaysMixed ==
    [][\A i \in Invocations :
          \A k \in 1..Len(entities[i]) :
              (pc[i] = "loop" /\ entities[i][k].sentiment = "mixed") =>
                  /\ pc'[i] = "loop" =>
                         /\ k <= Len(entities'[i])
                         /\ entities'[i][k].sentiment = "mixed"
                  /\ pc'[i] = "done" =>
                         /\ k <= Len(result'[i])
                         /\ result'[i][k].sentiment = "mixed"]_vars

\* a record that became mixed on its second mention has processed a
\* third mention whose sentiment is the one of the first
MixedStaysMixedWitness ==
    /\ pc[1] = "loop"
    /\ Len(entities[1]) = 1
    /\ entities[1][1].sentiment = "mixed"
    /\ entities[1][1].mention_count = 3
    /\ LET ms == AllMentions(passed[1])
       IN  /\ SentimentOf(ms[1]) = "negative"
           /\ SentimentOf(ms[2]) = "positive"
           /\ SentimentOf(ms[3]) = "negative"

(***************************************************************************)
(* C10: processing one mention changes at most one record.  If a record    *)
(* with the mention's name exists, only its mention_count (plus 1) and     *)
(* possibly its sentiment change; its name, type and role, every other     *)
(* record and the order of the records are unchanged.  Otherwise one       *)
(* record with mention_count 1 is appended at the end.  No step of the     *)
(* pass removes a record.                                                  *)
(***************************************************************************)
MentionStepFrame ==
    [][\A i \in Invocations :
          (pc[i] = "loop" /\ pc'[i] = "loop") =>
              LET e == entities[i]
                  f == entities'[i]
              IN  IF /\ doc_index'[i] = doc_index[i]
                     /\ mention_index'[i] = mention_index[i] + 1
                  THEN LET n == NameOf(DocEntities(i)[mention_index[i]])
                       IN  IF \E k \in 1..Len(e) : e[k].name = n
                           THEN /\ Len(f) = Len(e)
                                /\ \A k \in 1..Len(e) :
                                       IF e[k].name = n
                                       THEN /\ f[k].name = e[k].name
                                            /\ f[k].type = e[k].type
                                            /\ f[k].government_role
                                                   = e[k].government_role
                                            /\ f[k].mention_count
                                                   = e[k].mention_count + 1
                                            /\ f[k].sentiment
                                                   \in {e[k].sentiment, "mixed"}
                                       ELSE f[k] = e[k]
                           ELSE /\ Len(f) = Len(e) + 1
                                /\ SubSeq(f, 1, Len(e)) = e
                                /\ f[Len(f)].name = n
                                /\ f[Len(f)].mention_count = 1
                  ELSE f = e]_vars

\* the second record of a roster of two has taken a second mention whose
\* type is not the type of its first mention
MentionStepWitness ==
    /\ pc[1] = "loop"
    /\ Len(entities[1]) = 2
    /\ entities[1][1].mention_count = 1
    /\ entities[1][2].mention_count = 2
    /\ LET ms == AllMentions(passed[1])
       IN  /\ NameOf(ms[2]) = NameOf(ms[3])
           /\ TypeOf(ms[2]) # TypeOf(ms[3])
           /\ entities[1][2].type = TypeOf(ms[2])

(***************************************************************************)
(* C11, as stated: for every reordering of the documents of an input and   *)
(* of the mentions inside them the function yields the same records, only  *)
(* their position differing, and the scan of the roster gives the roster   *)
(* a lookup through a name-keyed index gives.                              *)
(***************************************************************************)
ReorderingOnlyMovesRecords ==
    /\ \A i \in Invocations :
           pc[i] = "done" => result[i] = ExtractIndexed(passed[i])
    /\ (pc[1] = "done" /\ pc[2] = "done") =>
           {result[1][a] : a \in 1..Len(result[1])}
               = {result[2][b] : b \in 1..Len(result[2])}

(***************************************************************************)
(* C11, amended: for every such reordering the function yields for each    *)
(* entity name the same mention_count, sentiment and role, and the scan    *)
(* gives the roster the index gives; the position of the records and       *)
(* their type, which is the type of the first mention processed, may       *)
(* differ.                                                                 *)
(***************************************************************************)
ReorderingKeepsCountAndSentiment ==
    /\ \A i \in Invocations :
           pc[i] = "done" => result[i] = ExtractIndexed(passed[i])
    /\ (pc[1] = "done" /\ pc[2] = "done") =>
           LET Core(r) == {[name |-> r[a].name,
                            mention_count |-> r[a].mention_count,
                            sentiment |-> r[a].sentiment,
                            government_role |-> r[a].government_role] :
                              a \in 1..Len(r)}
           IN  /\ Len(result[1]) = Len(result[2])
               /\ Core(result[1]) = Core(result[2])

\* both calls have returned, the second on the documents in the other order
\* with the mentions of an entity swapped: its record is mixed in both
\* rosters, at another position and with another type
ReorderingWitness ==
    /\ pc[1] = "done" /\ pc[2] = "done"
    /\ Len(passed[1].documents) = 2
    /\ passed[2].documents[1] # passed[1].documents[1]
    /\ Len(result[1]) = 2 /\ Len(result[2]) = 2
    /\ result[1][1].name = result[2][2].name
    /\ result[1][1].mention_count = 2
    /\ result[1][1].sentiment = "mixed"
    /\ result[2][2].sentiment = "mixed"
    /\ result[1][1].type # result[2][2].type

(***************************************************************************)
(* Vocabulary of the properties of load_sentiment_data.                    *)
(***************************************************************************)
FileAt(k) == files[Location(possible_paths[k])]

\* the candidates that exist and parse
Good == {k \in 1..Len(possible_paths) : FileAt(k).exists /\ FileAt(k).parses}

FirstGood == CHOOSE k \in Good : \A j \in Good : k <= j

\* the candidates tried: up to the first good one, or all
Tried == IF Good = {} THEN 1..Len(possible_paths) ELSE 1..FirstGood

\* the parse errors reported, in order
RECURSIVE ParseErrors(_)
ParseErrors(r) ==
    IF r = <<>> THEN <<>>
    ELSE (IF Head(r).kind = "parse_error" THEN <<Head(r).path>> ELSE <<>>)
             \o ParseErrors(Tail(r))

\* the malformed files among the candidates 1..n, in order
RECURSIVE MalformedUpTo(_)
MalformedUpTo(n) ==
    IF n = 0 THEN <<>>
    ELSE MalformedUpTo(n - 1)
             \o (IF FileAt(n).exists /\ ~FileAt(n).parses
                 THEN <<possible_paths[n]>> ELSE <<>>)

\* order of the paths, contents of the first good one, reports, no raise
LoadsFirstGood ==
    /\ load_pc # "raised"
    /\ load_pc = "returned" =>
           /\ opened = [k \in Tried |-> possible_paths[k]]
           /\ ParseErrors(reports) = MalformedUpTo(Len(opened))
           /\ Good # {} =>
                  /\ loaded = FileAt(FirstGood).value
                  /\ reports[Len(reports)]
                         = [kind |-> "success", path |-> possible_paths[FirstGood]]
           /\ Good = {} => loaded = None

(***************************************************************************)
(* C12, as stated: the candidate paths are tried in the listed order; the  *)
(* parsed content of the first that exists and parses is returned and no   *)
(* later candidate is opened; a missing file is skipped silently, a        *)
(* malformed one is reported and skipped; nothing is raised; None is       *)
(* returned exactly when no candidate exists and parses.                   *)
(***************************************************************************)
LoadNoneIffNoGood ==
    /\ LoadsFirstGood
    /\ load_pc = "returned" => (loaded = None <=> Good = {})

(***************************************************************************)
(* C12, amended: as stated, except that None is returned exactly when no   *)
(* candidate exists and parses or the first that does holds JSON null.     *)
(***************************************************************************)
LoadNoneIffNoGoodOrNull ==
    /\ LoadsFirstGood
    /\ load_pc = "returned" =>
           (loaded = None <=> (Good = {} \/ FileAt(FirstGood).value = None))

\* the file of the working directory is malformed and reported for both
\* of its paths, the file under data/ is returned
LoadWitness ==
    /\ load_pc = "returned"
    /\ files["cwd"] = Malformed
    /\ files["data"] = Json([documents |-> <<>>])
    /\ loaded = [documents |-> <<>>]
    /\ Len(opened) = 3
    /\ Len(reports) = 3

(***************************************************************************)
(* C13: the final 'file not found' report is emitted only when every       *)
(* candidate file is missing.                                              *)
(***************************************************************************)
NotFoundOnlyWhenAllMissing ==
    (\E k \in 1..Len(reports) : reports[k].kind = "not_found") =>
        \A l \in Locations : ~files[l].exists

====
